---- MODULE Spec2Model ----
(***************************************************************************)
(* worker_daily_brief.py: the FinanceFlow daily briefing worker.           *)
(*                                                                         *)
(* Each run is one process invocation: the module-level Firebase           *)
(* initialisation, then main(): existence check on daily_briefs/<date>,    *)
(* query of analyzed_news, one Groq completion, validation, one set().     *)
(* Runs share nothing but the Firestore collections, so overlapping runs   *)
(* interleave at their blocking network calls.                             *)
(***************************************************************************)
EXTENDS Integers, Sequences, FiniteSets, TLC

\* ---------------------------------------------------------------- bounds
MaxRuns == 2        \* process invocations of the worker
MaxClock == 2       \* ticks of the UTC clock
TicksPerDay == 2    \* clock ticks in one UTC day
MaxNews == 2        \* documents in the short analyzed_news collections
MaxSummaries == 2   \* length of the lists handed to a direct generator call

QueryLimit == 15    \* .limit(15)

Runs == 1..MaxRuns
NoId == -1

\* ------------------------------------------------- Python values (dicts)
EmptyMap == [k \in {} |-> 0]

\* dict.get(k, default)
Get(m, k, default) == IF k \in DOMAIN m THEN m[k] ELSE default

\* d[k] = v
Put(m, k, v) == [x \in (DOMAIN m) \cup {k} |-> IF x = k THEN v ELSE m[x]]

\* A parsed JSON value: an object (dict), an array (list) or a number.
JObject(m) == [type |-> "object", map |-> m, items |-> <<>>, n |-> 0]
JArray(s) == [type |-> "array", map |-> EmptyMap, items |-> s, n |-> 0]
JNumber(k) == [type |-> "number", map |-> EmptyMap, items |-> <<>>, n |-> k]

EmptyResult == JObject(EmptyMap)

\* bool(v)
Truthy(v) ==
    CASE v.type = "object" -> DOMAIN v.map # {}
      [] v.type = "array" -> v.items # <<>>
      [] OTHER -> v.n # 0

\* `key in v` raises TypeError for a number
InRaises(v) == v.type = "number"

\* `key in v`
Contains(v, key) ==
    CASE v.type = "object" -> key \in DOMAIN v.map
      [] v.type = "array" -> \E i \in 1..Len(v.items) : v.items[i] = key
      [] OTHER -> FALSE

\* v[key] = x raises TypeError unless v is a dict
SetItemRaises(v) == v.type # "object"

\* ------------------------------------------------------ json.loads(text)
\* Texts are opaque strings; decoding is the table of the texts that occur.
FullBriefing ==
    [market_headline |-> "H", market_overview |-> "O",
     key_drivers_and_outlook |-> <<"a", "b", "c">>,
     movers_and_shakers |-> <<"AAPL">>]

JsonLoads(text) ==
    CASE text = "{\"type\": \"service_account\"}" ->
            [ok |-> TRUE, value |-> JObject([type |-> "service_account"])]
      [] text = "{}" ->
            [ok |-> TRUE, value |-> JObject(EmptyMap)]
      [] text = "{\"market_overview\": \"x\"}" ->
            [ok |-> TRUE, value |-> JObject([market_overview |-> "x"])]
      [] text = "{<the four documented keys>}" ->
            [ok |-> TRUE, value |-> JObject(FullBriefing)]
      [] text = "{<the four documented keys>, \"source_news_count\": 99}" ->
            [ok |-> TRUE, value |-> JObject(Put(FullBriefing, "source_news_count", 99))]
      [] text = "[\"market_headline\"]" ->
            [ok |-> TRUE, value |-> JArray(<<"market_headline">>)]
      [] text = "5" ->
            [ok |-> TRUE, value |-> JNumber(5)]
      [] OTHER ->
            [ok |-> FALSE, value |-> EmptyResult]      \* JSONDecodeError

\* ----------------------------------------------------------- the inputs
\* os.environ of an invocation: each variable unset, empty or set.
Unset == "<unset>"
EnvOf(c, k) ==
    [n \in {x \in {"GOOGLE_APPLICATION_CREDENTIALS_JSON", "GROQ_API_KEY"} :
                IF x = "GROQ_API_KEY" THEN k # Unset ELSE c # Unset}
        |-> IF n = "GROQ_API_KEY" THEN k ELSE c]
EnvUniverse ==
    {EnvOf(c, k) : c \in {Unset, "", "not json", "{\"type\": \"service_account\"}"},
                   k \in {Unset, "", "gsk_key"}}

\* What the Groq service does with one completion request.
LLMOutcomes ==
    {[kind |-> "raise", content |-> ""]} \cup
    {[kind |-> "response", content |-> c] :
        c \in {"Sorry, I cannot help with that.",
               "{}",
               "{\"market_overview\": \"x\"}",
               "{<the four documented keys>}",
               "{<the four documented keys>, \"source_news_count\": 99}",
               "[\"market_headline\"]",
               "5"}}

\* analyzed_news documents, by what they hold of analysis.summary_en: two
\* with a summary, then one without `analysis`, one with an empty summary and
\* one whose analysis has no summary_en.
RecordKinds ==
    <<[analysis |-> [summary_en |-> "s1"]],
      [analysis |-> [summary_en |-> "s2"]],
      EmptyMap,
      [analysis |-> [summary_en |-> ""]],
      [analysis |-> EmptyMap]>>

SeqsUpTo(S, n) == UNION {[1..k -> S] : k \in 0..n}

\* The collection in the query's order (published, newest first): empty, the
\* windows of MaxNews documents of the cycle of RecordKinds, and two
\* collections longer than the limit.
NewsUniverse ==
    {[i \in 1..n |-> RecordKinds[((i + shift) % Len(RecordKinds)) + 1]] :
        n \in {0, MaxNews}, shift \in 1..Len(RecordKinds)} \cup
    {[i \in 1..(QueryLimit + 1) |->
        IF i <= QueryLimit THEN [analysis |-> [summary_en |-> ""]]
                           ELSE [analysis |-> [summary_en |-> "s1"]]],
     [i \in 1..(QueryLimit + 1) |-> [analysis |-> [summary_en |-> "s1"]]]}

\* ------------------------------------------ module-level initialisation
\* os.getenv(name) is None or ''
NotSet(env, name) == name \notin DOMAIN env \/ env[name] = ""

\* Mutant: the check of GROQ_API_KEY is left out.
ModuleInitNoKeyCheck(env, certRaises, clientRaises) ==
    IF NotSet(env, "GOOGLE_APPLICATION_CREDENTIALS_JSON") THEN "exit1"
    ELSE IF ~JsonLoads(env["GOOGLE_APPLICATION_CREDENTIALS_JSON"]).ok THEN "exit1"
    ELSE IF certRaises THEN "exit1"
    ELSE IF clientRaises THEN "exit1"
    ELSE "ready"

\* Lines 25-66: "ready", or "exit1" for sys.exit(1).
ModuleInit(env, certRaises, clientRaises) ==
    IF NotSet(env, "GOOGLE_APPLICATION_CREDENTIALS_JSON") THEN "exit1"
    ELSE IF NotSet(env, "GROQ_API_KEY") THEN "exit1"
    ELSE IF ~JsonLoads(env["GOOGLE_APPLICATION_CREDENTIALS_JSON"]).ok THEN "exit1"
    ELSE IF certRaises THEN "exit1"
    ELSE IF clientRaises THEN "exit1"
    ELSE "ready"

\* --------------------------------------------------------------- main()
\* datetime.utcnow().strftime('%Y-%m-%d'): the UTC day of the instant
DateId(t) == t \div TicksPerDay

\* Mutant: the existence check looks at the reference, which is never `exists`.
SnapshotExistsNever(st, id) == FALSE

\* brief_doc_ref.get().exists
SnapshotExists(st, id) == id \in DOMAIN st

\* query.stream() of order_by("published", DESCENDING).limit(15)
QueryRecent(news) == SubSeq(news, 1, IF Len(news) < QueryLimit THEN Len(news) ELSE QueryLimit)

\* the truth value of a summary_en string
SummaryTruthy(s) == s # ""

\* Mutant: the filter keeps every document that has an analysis.
KeepSummaryIfAnalysed(doc) == "analysis" \in DOMAIN doc

\* the filter of the list comprehension, lines 141-145
KeepSummary(doc) == SummaryTruthy(Get(Get(doc, "analysis", EmptyMap), "summary_en", ""))

RECURSIVE ExtractSummaries(_)
ExtractSummaries(docs) ==
    IF docs = <<>> THEN <<>>
    ELSE LET doc == Head(docs)
             rest == ExtractSummaries(Tail(docs))
         IN  IF KeepSummary(doc)
             THEN <<Get(Get(doc, "analysis", EmptyMap), "summary_en", "")>> \o rest
             ELSE rest

\* Mutant: no guard for an empty list; the completion call is always made.
generate_without_guard(news_summaries, outcome) ==
    IF outcome.kind = "raise"
    THEN [result |-> EmptyResult, called |-> TRUE, raised |-> FALSE]
    ELSE LET parsed == JsonLoads(outcome.content)
         IN  IF parsed.ok
             THEN [result |-> parsed.value, called |-> TRUE, raised |-> FALSE]
             ELSE [result |-> EmptyResult, called |-> TRUE, raised |-> FALSE]

\* Mutant: json.loads is outside the try; a decoding error leaves the method.
generate_parse_outside_try(news_summaries, outcome) ==
    IF news_summaries = <<>>
    THEN [result |-> EmptyResult, called |-> FALSE, raised |-> FALSE]
    ELSE IF outcome.kind = "raise"
    THEN [result |-> EmptyResult, called |-> TRUE, raised |-> FALSE]
    ELSE LET parsed == JsonLoads(outcome.content)
         IN  [result |-> parsed.value, called |-> TRUE, raised |-> ~parsed.ok]

\* generate_market_briefing: the value returned, whether the completion call
\* was made, and whether an exception left the method
generate_market_briefing(news_summaries, outcome) ==
    IF news_summaries = <<>>
    THEN [result |-> EmptyResult, called |-> FALSE, raised |-> FALSE]
    ELSE IF outcome.kind = "raise"
    THEN [result |-> EmptyResult, called |-> TRUE, raised |-> FALSE]
    ELSE LET parsed == JsonLoads(outcome.content)
         IN  IF parsed.ok
             THEN [result |-> parsed.value, called |-> TRUE, raised |-> FALSE]
             ELSE [result |-> EmptyResult, called |-> TRUE, raised |-> FALSE]

\* Mutant: any non-empty result is accepted.
AcceptedIfNonEmpty(briefing_data) == Truthy(briefing_data)

\* `if briefing_data and 'market_headline' in briefing_data`
Accepted(briefing_data) == Truthy(briefing_data) /\ Contains(briefing_data, "market_headline")

\* that condition raising TypeError, outside every try
ValidationRaises(briefing_data) == Truthy(briefing_data) /\ InRaises(briefing_data)

\* lines 162-163: the document handed to set(); SERVER_TIMESTAMP is resolved
\* by the server to its clock
AnnotatedDoc(briefing_data, news_summaries, serverTime) ==
    Put(Put(briefing_data.map, "generated_at_utc", serverTime),
        "source_news_count", Len(news_summaries))

\* Mutant: the document is written under the next day's id.
SetDocNextDay(st, id, doc) == Put(st, id + 1, doc)

\* Mutant: create-if-absent; a document that exists is kept.
SetDocIfAbsent(st, id, doc) == IF id \in DOMAIN st THEN st ELSE Put(st, id, doc)

\* brief_doc_ref.set(doc): the whole document at the id is replaced
SetDoc(st, id, doc) == Put(st, id, doc)

\* ---------------------------------------------------------------- state
VARIABLES
    utcnow,            \* the UTC clock, in ticks
    analyzed_news,     \* the analyzed_news collection, newest first
    daily_briefs,      \* the daily_briefs collection: id -> document
    pc,                \* where each run is
    exit_status,       \* each run's process exit status, -1 while it runs
    today_id,          \* main's local, NoId before line 128
    news_summaries_for_context,
    briefing_data,
    calls,             \* each run's calls of its collaborators
    startup_fault,     \* history: the run's environment was unusable
    found_existing,    \* history: the document was there at the run's lookup
    query_ok,          \* history: the run's query returned
    finished_before,   \* history: the runs that had ended when this one started
    set_log,           \* history: the set() calls, in order
    unit_state,        \* a direct call of generate_market_briefing:
    unit_summaries,    \*   "off", or "ready" -> "returned"
    unit_outcome,
    unit_return

vars == <<utcnow, analyzed_news, daily_briefs, pc, exit_status, today_id,
          news_summaries_for_context, briefing_data, calls, startup_fault,
          found_existing, query_ok, finished_before, set_log,
          unit_state, unit_summaries, unit_outcome, unit_return>>

workerVars == <<utcnow, analyzed_news, daily_briefs, pc, exit_status, today_id,
                news_summaries_for_context, briefing_data, calls, startup_fault,
                found_existing, query_ok, finished_before, set_log>>

unitVars == <<unit_state, unit_summaries, unit_outcome, unit_return>>

NoCalls == [get |-> 0, query |-> 0, generate |-> 0, llm |-> 0, set |-> 0]
NoReturn == [result |-> EmptyResult, called |-> FALSE, raised |-> FALSE]
NoOutcome == [kind |-> "raise", content |-> ""]

InitWorkers ==
    /\ utcnow = 0
    /\ daily_briefs = EmptyMap
    /\ pc = [r \in Runs |-> "idle"]
    /\ exit_status = [r \in Runs |-> -1]
    /\ today_id = [r \in Runs |-> NoId]
    /\ news_summaries_for_context = [r \in Runs |-> <<>>]
    /\ briefing_data = [r \in Runs |-> EmptyResult]
    /\ calls = [r \in Runs |-> NoCalls]
    /\ startup_fault = [r \in Runs |-> FALSE]
    /\ found_existing = [r \in Runs |-> FALSE]
    /\ query_ok = [r \in Runs |-> FALSE]
    /\ finished_before = [r \in Runs |-> {}]
    /\ set_log = <<>>

\* Either the worker is run (any number of invocations), or the generator is
\* called directly on a list of summaries.
Init ==
    /\ InitWorkers
    /\ \/ /\ analyzed_news \in NewsUniverse
          /\ unit_state = "off"
          /\ unit_summaries = <<>>
          /\ unit_outcome = NoOutcome
       \/ /\ analyzed_news = <<>>
          /\ unit_state = "ready"
          /\ unit_summaries \in SeqsUpTo({"s1", "s2"}, MaxSummaries)
          /\ unit_outcome \in LLMOutcomes
    /\ unit_return = NoReturn

\* The process of run r ends with `status`; its locals are gone.
Exit(r, status) ==
    /\ pc' = [pc EXCEPT ![r] = "exited"]
    /\ exit_status' = [exit_status EXCEPT ![r] = status]
    /\ news_summaries_for_context' = [news_summaries_for_context EXCEPT ![r] = <<>>]
    /\ briefing_data' = [briefing_data EXCEPT ![r] = EmptyResult]

Called(r, what) == calls' = [calls EXCEPT ![r][what] = @ + 1]

\* The environment of an invocation cannot be used: a variable is unset or
\* empty, the credentials are not JSON, or the store cannot be initialised.
UnusableConfig(env, certRaises, clientRaises) ==
    \/ \E n \in {"GOOGLE_APPLICATION_CREDENTIALS_JSON", "GROQ_API_KEY"} :
          n \notin DOMAIN env \/ env[n] = ""
    \/ ~JsonLoads(env["GOOGLE_APPLICATION_CREDENTIALS_JSON"]).ok
    \/ certRaises
    \/ clientRaises

\* Lines 17-66 and 175-176: an invocation starts; runs are numbered as they start.
Startup(r) ==
    /\ unit_state = "off"
    /\ pc[r] = "idle"
    /\ \A q \in Runs : q < r => pc[q] # "idle"
    /\ \E env \in EnvUniverse, certRaises \in BOOLEAN, clientRaises \in BOOLEAN :
          /\ startup_fault' = [startup_fault EXCEPT ![r] =
                                  UnusableConfig(env, certRaises, clientRaises)]
          /\ IF ModuleInit(env, certRaises, clientRaises) = "exit1"
             THEN Exit(r, 1)
             ELSE /\ pc' = [pc EXCEPT ![r] = "main"]
                  /\ UNCHANGED <<exit_status, news_summaries_for_context, briefing_data>>
    /\ finished_before' = [finished_before EXCEPT ![r] = {q \in Runs : pc[q] = "exited"}]
    /\ UNCHANGED <<utcnow, analyzed_news, daily_briefs, today_id, calls,
                   found_existing, query_ok, set_log>>
    /\ UNCHANGED unitVars

\* Lines 127-134: the id of today and the existence check. get() is in no try.
CheckExisting(r) ==
    /\ pc[r] = "main"
    /\ LET id == DateId(utcnow) IN
       /\ today_id' = [today_id EXCEPT ![r] = id]
       /\ Called(r, "get")
       /\ \E getRaises \in BOOLEAN :
             IF getRaises
             THEN /\ Exit(r, 1)
                  /\ UNCHANGED found_existing
             ELSE /\ found_existing' = [found_existing EXCEPT ![r] = id \in DOMAIN daily_briefs]
                  /\ IF SnapshotExists(daily_briefs, id)
                     THEN Exit(r, 0)
                     ELSE /\ pc' = [pc EXCEPT ![r] = "fetch"]
                          /\ UNCHANGED <<exit_status, news_summaries_for_context,
                                         briefing_data>>
    /\ UNCHANGED <<utcnow, analyzed_news, daily_briefs, startup_fault, query_ok,
                   finished_before, set_log>>
    /\ UNCHANGED unitVars

\* Lines 136-155: the query and the extraction of the summaries.
Fetch(r) ==
    /\ pc[r] = "fetch"
    /\ Called(r, "query")
    /\ \E queryRaises \in BOOLEAN :
          IF queryRaises
          THEN /\ Exit(r, 0)
               /\ UNCHANGED query_ok
          ELSE LET summaries == ExtractSummaries(QueryRecent(analyzed_news)) IN
               /\ query_ok' = [query_ok EXCEPT ![r] = TRUE]
               /\ IF summaries = <<>>
                  THEN Exit(r, 0)
                  ELSE /\ news_summaries_for_context' =
                              [news_summaries_for_context EXCEPT ![r] = summaries]
                       /\ pc' = [pc EXCEPT ![r] = "generate"]
                       /\ UNCHANGED <<exit_status, briefing_data>>
    /\ UNCHANGED <<utcnow, analyzed_news, daily_briefs, today_id, startup_fault,
                   found_existing, finished_before, set_log>>
    /\ UNCHANGED unitVars

\* Lines 157-158: the generator is built and called.
Generate(r) ==
    /\ pc[r] = "generate"
    /\ \E outcome \in LLMOutcomes :
          LET g == generate_market_briefing(news_summaries_for_context[r], outcome) IN
          /\ calls' = [calls EXCEPT ![r].generate = @ + 1,
                                    ![r].llm = @ + (IF g.called THEN 1 ELSE 0)]
          /\ IF g.raised
             THEN Exit(r, 1)
             ELSE /\ briefing_data' = [briefing_data EXCEPT ![r] = g.result]
                  /\ pc' = [pc EXCEPT ![r] = "validate"]
                  /\ UNCHANGED <<exit_status, news_summaries_for_context>>
    /\ UNCHANGED <<utcnow, analyzed_news, daily_briefs, today_id, startup_fault,
                   found_existing, query_ok, finished_before, set_log>>
    /\ UNCHANGED unitVars

\* Lines 160-172: validation and the write.
Persist(r) ==
    /\ pc[r] = "validate"
    /\ LET data == briefing_data[r]
           summaries == news_summaries_for_context[r]
       IN  IF ValidationRaises(data)
           THEN /\ Exit(r, 1)
                /\ UNCHANGED <<daily_briefs, calls, set_log>>
           ELSE IF ~Accepted(data) \/ SetItemRaises(data)
           THEN /\ Exit(r, 0)
                /\ UNCHANGED <<daily_briefs, calls, set_log>>
           ELSE \E setRaises \in BOOLEAN :
                   LET doc == AnnotatedDoc(data, summaries, utcnow) IN
                   /\ Called(r, "set")
                   /\ set_log' = Append(set_log,
                                    [run |-> r, id |-> today_id[r], doc |-> doc,
                                     result |-> data, ok |-> ~setRaises])
                   /\ daily_briefs' = IF setRaises THEN daily_briefs
                                      ELSE SetDoc(daily_briefs, today_id[r], doc)
                   /\ Exit(r, 0)
    /\ UNCHANGED <<utcnow, analyzed_news, today_id, startup_fault, found_existing,
                   query_ok, finished_before>>
    /\ UNCHANGED unitVars

\* Time passes.
Tick ==
    /\ unit_state = "off"
    /\ utcnow < MaxClock
    /\ utcnow' = utcnow + 1
    /\ UNCHANGED <<analyzed_news, daily_briefs, pc, exit_status, today_id,
                   news_summaries_for_context, briefing_data, calls, startup_fault,
                   found_existing, query_ok, finished_before, set_log>>
    /\ UNCHANGED unitVars

\* generate_market_briefing called directly.
UnitCall ==
    /\ unit_state = "ready"
    /\ unit_return' = generate_market_briefing(unit_summaries, unit_outcome)
    /\ unit_state' = "returned"
    /\ UNCHANGED <<unit_summaries, unit_outcome>>
    /\ UNCHANGED workerVars

Next ==
    \/ \E r \in Runs : Startup(r)
    \/ \E r \in Runs : CheckExisting(r)
    \/ \E r \in Runs : Fetch(r)
    \/ \E r \in Runs : Generate(r)
    \/ \E r \in Runs : Persist(r)
    \/ Tick
    \/ UnitCall

Spec == Init /\ [][Next]_vars

\* ------------------------------------------------------------ the claims
Exited(r) == pc[r] = "exited"

\* the set() calls that succeeded, as indices of set_log
OkSets == {i \in DOMAIN set_log : set_log[i].ok}
OkSetsOf(r) == {i \in OkSets : set_log[i].run = r}
OkSetsAt(id) == {i \in OkSets : set_log[i].id = id}
LastOkSetAt(id) == CHOOSE i \in OkSetsAt(id) : \A j \in OkSetsAt(id) : j <= i

\* the documents among the first QueryLimit that carry a non-empty summary_en
NonEmptySummaryCount(news) ==
    Cardinality({i \in 1..Len(news) :
        /\ i <= QueryLimit
        /\ "analysis" \in DOMAIN news[i]
        /\ "summary_en" \in DOMAIN news[i].analysis
        /\ news[i].analysis.summary_en # ""})

DocumentedFields ==
    {"market_headline", "market_overview", "key_drivers_and_outlook", "movers_and_shakers"}
InjectedFields == {"generated_at_utc", "source_news_count"}

\* C1: a run that finds the document at its id when it looks it up makes no
\* query, no generator or LLM call and no set(), and ends with status 0.
C1_ExistingIsNoOp ==
    \A r \in Runs :
        found_existing[r] =>
            /\ Exited(r)
            /\ exit_status[r] = 0
            /\ calls[r].query = 0
            /\ calls[r].generate = 0
            /\ calls[r].llm = 0
            /\ calls[r].set = 0
            /\ \A i \in DOMAIN set_log : set_log[i].run # r

C1_Witness ==
    \E r \in Runs : found_existing[r] /\ Exited(r) /\ calls[r].get = 1

\* C2: at every id at most one set() is ever performed, whatever the
\* interleaving of the runs.
C2_WrittenAtMostOnce ==
    \A id \in DOMAIN daily_briefs : Cardinality(OkSetsAt(id)) <= 1

\* C3: set() is called only with a result that is non-empty and holds
\* market_headline, so every stored document holds market_headline; a run
\* whose generator returned anything else has ended without a set().
C3_WriteOnlyWithHeadline ==
    /\ \A i \in DOMAIN set_log :
          /\ Truthy(set_log[i].result)
          /\ set_log[i].result.type = "object"
          /\ "market_headline" \in DOMAIN set_log[i].result.map
    /\ \A id \in DOMAIN daily_briefs : "market_headline" \in DOMAIN daily_briefs[id]
    /\ \A r \in Runs :
          pc[r] = "validate" /\ ~(Truthy(briefing_data[r])
                                  /\ briefing_data[r].type = "object"
                                  /\ "market_headline" \in DOMAIN briefing_data[r].map)
            => calls[r].set = 0

C3_Witness ==
    /\ \E r \in Runs : Exited(r) /\ calls[r].generate = 1 /\ calls[r].set = 0
    /\ \E r \in Runs : Exited(r) /\ calls[r].set = 1 /\ OkSetsOf(r) # {}

\* C4: once startup has succeeded, a run ends with exit status 0.
C4_ExitZeroAfterStartup ==
    \A r \in Runs : Exited(r) /\ ~startup_fault[r] => exit_status[r] = 0

\* C5 as stated: the stored document holds every key/value of the
\* generator's result, generated_at_utc, and source_news_count equal to the
\* number of non-empty summaries among the queried records.
C5_StoredHoldsWholeResult ==
    \A id \in DOMAIN daily_briefs :
        LET e == set_log[LastOkSetAt(id)] IN
        /\ \A k \in DOMAIN e.result.map :
              k \in DOMAIN daily_briefs[id] /\ daily_briefs[id][k] = e.result.map[k]
        /\ "generated_at_utc" \in DOMAIN daily_briefs[id]
        /\ "source_news_count" \in DOMAIN daily_briefs[id]
        /\ daily_briefs[id]["source_news_count"] = NonEmptySummaryCount(analyzed_news)

\* C5 amended: the stored document holds every key/value of the result
\* except under the two injected keys, whose values are the worker's.
C5_StoredHoldsResultAndInjected ==
    \A id \in DOMAIN daily_briefs :
        LET e == set_log[LastOkSetAt(id)] IN
        /\ \A k \in (DOMAIN e.result.map) \ InjectedFields :
              k \in DOMAIN daily_briefs[id] /\ daily_briefs[id][k] = e.result.map[k]
        /\ DOMAIN daily_briefs[id] = (DOMAIN e.result.map) \cup InjectedFields
        /\ daily_briefs[id]["source_news_count"] = NonEmptySummaryCount(analyzed_news)

C5_Witness ==
    \E id \in DOMAIN daily_briefs :
        /\ DocumentedFields \subseteq DOMAIN daily_briefs[id]
        /\ daily_briefs[id]["source_news_count"] >= 1
        /\ daily_briefs[id]["source_news_count"] < Len(analyzed_news)

\* C6: a run makes at most one completion call, and only after its query
\* gave a non-empty summary; a run whose query gave none ends without a
\* generator call or a set(); the generator called with an empty list
\* returns {} without a completion call.
C6_LLMOnlyWithSummaries ==
    /\ \A r \in Runs :
          /\ calls[r].llm <= 1
          /\ calls[r].llm = 1 => query_ok[r] /\ NonEmptySummaryCount(analyzed_news) > 0
          /\ query_ok[r] /\ NonEmptySummaryCount(analyzed_news) = 0 =>
                /\ Exited(r)
                /\ exit_status[r] = 0
                /\ calls[r].generate = 0
                /\ calls[r].llm = 0
                /\ calls[r].set = 0
    /\ unit_state = "returned" /\ unit_summaries = <<>> =>
          /\ unit_return.result = EmptyResult
          /\ ~unit_return.called
          /\ ~unit_return.raised

C6_Witness ==
    \E r \in Runs :
        /\ query_ok[r]
        /\ analyzed_news # <<>>
        /\ NonEmptySummaryCount(analyzed_news) = 0
        /\ Exited(r)

\* C7: of two runs for the same id, the second started after the first had
\* ended, at most one set() succeeds; if the first one's did, the second
\* makes no query, no generator or LLM call and no set().
C7_SequentialRunsWriteOnce ==
    \A r1 \in Runs, r2 \in Runs :
        r1 \in finished_before[r2] /\ today_id[r2] # NoId /\ today_id[r1] = today_id[r2] =>
            /\ Cardinality(OkSetsOf(r1)) + Cardinality(OkSetsOf(r2)) <= 1
            /\ OkSetsOf(r1) # {} =>
                  /\ calls[r2].query = 0
                  /\ calls[r2].generate = 0
                  /\ calls[r2].llm = 0
                  /\ calls[r2].set = 0

C7_Witness ==
    \E r1 \in Runs, r2 \in Runs :
        /\ r1 \in finished_before[r2]
        /\ today_id[r1] = today_id[r2]
        /\ OkSetsOf(r1) # {}
        /\ Exited(r2)
        /\ found_existing[r2]

\* C8: an invocation whose environment is unusable ends with status 1 and
\* makes no existence check, query, generator or LLM call or set().
C8_FailFastStartup ==
    \A r \in Runs :
        startup_fault[r] =>
            /\ Exited(r)
            /\ exit_status[r] = 1
            /\ calls[r] = NoCalls
            /\ today_id[r] = NoId

C8_Witness ==
    \E r \in Runs : startup_fault[r] /\ Exited(r)

\* C9 as stated: the generator propagates nothing and returns {} or a
\* mapping holding the four documented fields.
C9_ResultEmptyOrComplete ==
    unit_state = "returned" =>
        /\ ~unit_return.raised
        /\ \/ unit_return.result = EmptyResult
           \/ /\ unit_return.result.type = "object"
              /\ DocumentedFields \subseteq DOMAIN unit_return.result.map

\* C9 amended: the generator propagates nothing; it returns {} for an empty
\* list, a failed call or an undecodable response, and otherwise the decoded
\* response as it is.
C9_ResultEmptyOrDecoded ==
    unit_state = "returned" =>
        /\ ~unit_return.raised
        /\ IF \/ unit_summaries = <<>>
              \/ unit_outcome.kind = "raise"
              \/ ~JsonLoads(unit_outcome.content).ok
           THEN unit_return.result = EmptyResult
           ELSE unit_return.result = JsonLoads(unit_outcome.content).value

C9_Witness ==
    /\ unit_state = "returned"
    /\ unit_summaries # <<>>
    /\ unit_return.result = JObject([market_overview |-> "x"])

\* C10: the collection holds, at each id, the document of the last set()
\* that succeeded there, and documents only at ids that runs computed.
C10_LastWriteWins ==
    /\ \A id \in DOMAIN daily_briefs :
          /\ OkSetsAt(id) # {}
          /\ daily_briefs[id] = set_log[LastOkSetAt(id)].doc
    /\ \A i \in OkSets : set_log[i].id \in DOMAIN daily_briefs
    /\ \A i \in DOMAIN set_log : set_log[i].id = today_id[set_log[i].run]

\* two runs passed the check, each made its LLM call, both wrote
C10_Witness ==
    \E i \in OkSets, j \in OkSets :
        /\ i < j
        /\ set_log[i].id = set_log[j].id
        /\ set_log[i].run # set_log[j].run
        /\ set_log[i].doc # set_log[j].doc
        /\ calls[set_log[i].run].llm = 1
        /\ calls[set_log[j].run].llm = 1
        /\ daily_briefs[set_log[j].id] = set_log[j].doc

====
